---- MODULE Spec2Model ----
(***************************************************************************)
(* WS2812 driver for the RP235x PIO (src/src/lib.rs).                      *)
(*                                                                         *)
(* The model has two processes that share the PIO transmit FIFO:           *)
(*   - the CPU, executing Ws2812Direct::write / Ws2812::write step by step *)
(*     (every read or write of a peripheral register is one step);         *)
(*   - the PIO state machine, executing the four-instruction program one   *)
(*     state-machine clock cycle per Tick.                                 *)
(* Time is counted in state-machine cycles: the divisor makes one cycle    *)
(* 1 / (FREQ * CYCLES_PER_BIT) = 1/8 microsecond.                          *)
(*                                                                         *)
(* Specifications:                                                         *)
(*   NewSpec   Ws2812Direct::new, from its call to its return or panic;    *)
(*   Spec      write calls on a constructed driver, with the state machine *)
(*             running (FairSpec: the same with fairness);                 *)
(*   PackSpec  the body of the write loop on one color.                    *)
(***************************************************************************)
EXTENDS Integers, Naturals, Sequences, FiniteSets, TLC

(***************************************************************************)
(* Program constants                                                       *)
(***************************************************************************)
T1 == 2
T2 == 5
T3 == 3
CYCLES_PER_BIT == T1 + T2 + T3
FreqKHz == 800
\* state-machine cycles per microsecond: FREQ * CYCLES_PER_BIT = 8 MHz
CyclesPerMicro == (FreqKHz * CYCLES_PER_BIT) \div 1000
PullThreshold == 24
\* Buffers::OnlyTx joins the two 4-entry FIFOs into one 8-entry TX FIFO
FifoDepth == 8
ResetMicros == 70
\* 70 microseconds in state-machine cycles
ResetCycles == ResetMicros * CyclesPerMicro
\* the WS2812 latch (reset) time: the line must stay low at least 50 us
LatchCycles == 50 * CyclesPerMicro
WordBits == 32
FracScaleWide == 4 * 256

\* rem * 256: the fractional part counts 1/256 of a cycle
FracScale == 256
\* (1..=65536): the largest divisor, represented as integer part 0
DivisorMax == 65536

(***************************************************************************)
(* Bounds of the model                                                     *)
(***************************************************************************)
\* longest color sequence one write call is given
MaxLen == 9
\* number of write calls in one run
MaxCalls == 2
\* number of distinct colors an iterator can yield
NumColors == 2
\* clock frequencies tried: up to 2^MaxShift times the bit frequency, and their complements
MaxShift == 7

(***************************************************************************)
(* u32 values are sequences of WordBits bits, most significant bit first   *)
(***************************************************************************)
RECURSIVE Pow2(_)
Pow2(n) == IF n = 0 THEN 1 ELSE 2 * Pow2(n - 1)

\* the low `width` bits of n, most significant first
RECURSIVE ToBits(_, _)
ToBits(n, width) ==
    IF width = 0 THEN << >>
    ELSE Append(ToBits(n \div 2, width - 1), n % 2)

RECURSIVE FromBits(_)
FromBits(bits) ==
    IF bits = << >> THEN 0
    ELSE 2 * FromBits(SubSeq(bits, 1, Len(bits) - 1)) + bits[Len(bits)]

\* color.r as u32: zero extension of a u8
AsU32(byte) == ToBits(byte, WordBits)

\* a << n on u32: the top n bits are lost, zeros enter from the right
Shl(a, n) == SubSeq(a, n + 1, WordBits) \o [i \in 1 .. n |-> 0]

\* a | b on u32
BitOr(a, b) == [i \in 1 .. WordBits |-> IF a[i] = 1 \/ b[i] = 1 THEN 1 ELSE 0]

\* byte lane k of a word, lane 0 being bits 7-0 and lane 3 bits 31-24
Lane(w, k) == FromBits(SubSeq(w, WordBits - 8 * k - 7, WordBits - 8 * k))

ZeroWord == [i \in 1 .. WordBits |-> 0]

\* In the arithmetic of new a u32 is a sequence of four digits of base 256,
\* most significant first; a number of twice the width has eight.
Base == 256
Limbs == 4

\* a number below 2^31 as a u32
U32(n) == << (n \div (Base * Base * Base)) % Base, (n \div (Base * Base)) % Base,
             (n \div Base) % Base, n % Base >>

\* a < b for two digit sequences of one length
Less(a, b) ==
    \E i \in 1 .. Len(a) : a[i] < b[i] /\ \A j \in 1 .. i - 1 : a[j] = b[j]

\* digits 1 .. i of a + b + c modulo Base^Len(a), c the carry into digit i
RECURSIVE AddFrom(_, _, _, _)
AddFrom(a, b, i, c) ==
    IF i = 0 THEN << >>
    ELSE LET sum == a[i] + b[i] + c
         IN  Append(AddFrom(a, b, i - 1, sum \div Base), sum % Base)

Add(a, b) == AddFrom(a, b, Len(a), 0)

\* a - b modulo Base^Len(a)
SubWrap(a, b) == AddFrom(a, [i \in 1 .. Len(b) |-> Base - 1 - b[i]], Len(a), 1)

\* a u32 as a number of twice the width, and such a number times Base^n
Widen(a) == [i \in 1 .. Limbs |-> 0] \o a
ShlWide(w, n) == SubSeq(w, n + 1, Len(w)) \o [i \in 1 .. n |-> 0]

\* digits 1 .. i of w * digit + c
RECURSIVE MulDigitFrom(_, _, _, _)
MulDigitFrom(w, digit, i, c) ==
    IF i = 0 THEN << >>
    ELSE LET p == w[i] * digit + c
         IN  Append(MulDigitFrom(w, digit, i - 1, p \div Base), p % Base)

\* the exact product of two u32 values, twice the width
MulWide(a, b) ==
    LET part(i) == ShlWide(MulDigitFrom(Widen(a), b[i], 2 * Limbs, 0), Limbs - i)
    IN  Add(Add(part(1), part(2)), Add(part(3), part(4)))

\* the exact result does not fit in a u32; the u32 that is left of it
Overflows(w) == \E i \in 1 .. Limbs : w[i] # 0
Low32(w) == SubSeq(w, Limbs + 1, 2 * Limbs)

\* u32 division by a number d, 0 < d < 2^23: the quotient digits from digit i
\* on, r the remainder of the digits before i
RECURSIVE DivFrom(_, _, _, _)
DivFrom(a, d, i, r) ==
    IF i > Len(a) THEN << >>
    ELSE LET t == Base * r + a[i]
         IN  << t \div d >> \o DivFrom(a, d, i + 1, t % d)

DivU32(a, d) == DivFrom(a, d, 1, 0)

\* `as u16`, `as u8`: the low digits are kept
Narrow(a, digits) ==
    IF digits = 1 THEN a[Limbs] ELSE Base * a[Limbs - 1] + a[Limbs]

(***************************************************************************)
(* Colors                                                                  *)
(***************************************************************************)
\* RGB8: <<r, g, b>>, each channel 0..255
ColorOf(i) == << (255 - 85 * i) % 256, (3 + 126 * i) % 256, (128 + 43 * i) % 256 >>
Colors == { ColorOf(i) : i \in 0 .. NumColors - 1 }

PackWrongLanes(color) ==
    BitOr(BitOr(Shl(AsU32(color[1]), 24), Shl(AsU32(color[2]), 16)),
          Shl(AsU32(color[3]), 8))

\* let word: u32 = g << 24 | r << 16 | b << 8;
Pack(color) ==
    BitOr(BitOr(Shl(AsU32(color[2]), 24), Shl(AsU32(color[1]), 16)),
          Shl(AsU32(color[3]), 8))

(***************************************************************************)
(* State                                                                   *)
(***************************************************************************)
VARIABLES
    framed,       \* TRUE: the driver is a Ws2812 (with countdown), FALSE: a Ws2812Direct
    pc,           \* position of the CPU inside write
    taken,        \* colors the for loop has taken from the iterator in this call
    word,         \* the local `word` of the for loop body (NoWord outside of it)
    result,       \* value returned by the last write call ("none" while running)
    calls,        \* number of write calls started
    txq,          \* TX FIFO of the state machine, oldest word first
    stalled,      \* FDEBUG.TXSTALL, the sticky stall flag
    cd,           \* cycles left until the CountDown elapses
    smpc,         \* program counter of the state machine (offset in the program)
    delay,        \* delay cycles left of the current instruction
    osr,          \* output shift register
    osrCount,     \* bits shifted out of the OSR since it was filled
    x,            \* scratch register X
    line,         \* level of the side-set pin
    \* history variables, read by no action guard
    accepted,     \* words the FIFO accepted in this call, oldest first
    rejected,     \* the FIFO has refused a word in this call
    osrTag,       \* which call the word in the OSR came from
    lowTime,      \* cycles the line has been low since the last bit of a word ended
    cdWaited,     \* cycles this call has spent in the countdown wait
    phases,       \* steps of Ws2812::write this call has gone through
    pushedBefore, \* an earlier call had a word accepted
    \* Ws2812Direct::new and the peripheral it sets up
    clock_freq,   \* the system clock frequency given to new, a u32
    int,          \* locals of new (u32), << >> outside of new
    rem,
    frac,
    installed,    \* the program is in the instruction memory of the PIO
    divisor,      \* clock divisor the state machine is configured with, << >>: not built
    pindir,       \* direction of the pin as set by the state machine
    started       \* the state machine runs

vars == << framed, pc, taken, word, result, calls, txq, stalled, cd, smpc, delay,
           osr, osrCount, x, line, accepted, rejected, osrTag, lowTime, cdWaited, phases,
           pushedBefore, clock_freq, int, rem, frac, installed, divisor, pindir,
           started >>

\* the locals of new and the peripheral as new sets it up
newVars == << clock_freq, int, rem, frac, installed, divisor, pindir, started >>

smVars == << smpc, delay, osr, osrCount, x, line, osrTag, lowTime >>

NoWord == [w |-> ZeroWord, call |-> 0, first |-> FALSE, follows |-> FALSE]

Min(a, b) == IF a < b THEN a ELSE b

IndexOf(color) == CHOOSE i \in 0 .. NumColors - 1 : ColorOf(i) = color

\* what the iterator may yield next (None is always possible, see IterNext)
NextColors(seq) ==
    IF seq = << >> THEN Colors
    ELSE { ColorOf((IndexOf(seq[Len(seq)]) + 1) % NumColors) }

(***************************************************************************)
(* Ws2812Direct::new, lines 33-95 (Ws2812::new only calls it, line 150)    *)
(***************************************************************************)
BitFreqWithoutCycles == FreqKHz * 1000

\* let bit_freq = FREQ * CYCLES_PER_BIT, in Hz
BitFreq == FreqKHz * 1000 * CYCLES_PER_BIT

\* the clock frequencies tried: below 2^31 the multiples q * 8 MHz for q and
\* q + 1 a power of two, each with some offsets, and the clocks of the
\* boards; from 2^31 on the complements of all these
ClockOffsets == {0, 1, 31249, 31250, 4000000, 7999999}
ClockFreqs ==
    LET quots == { Pow2(k) - 1 : k \in 0 .. MaxShift } \cup { Pow2(k) : k \in 0 .. MaxShift }
        low == { U32(q * 8000000 + r) : q \in quots, r \in ClockOffsets }
                 \cup { U32(125000000), U32(133000000), U32(150000000) }
    IN  low \cup { [i \in 1 .. Limbs |-> Base - 1 - f[i]] : f \in low }

\* the driver and the state machine before new has run
Fresh ==
    /\ taken = << >>
    /\ word = NoWord
    /\ result = "none"
    /\ calls = 0
    /\ txq = << >>
    /\ stalled = FALSE
    /\ cd = 0
    /\ smpc = 0
    /\ delay = 0
    /\ osr = ZeroWord
    /\ osrCount = PullThreshold
    /\ x = 0
    /\ line = 0
    /\ accepted = << >>
    /\ rejected = FALSE
    /\ osrTag = NoWord
    /\ lowTime = 0
    /\ cdWaited = 0
    /\ phases = << >>
    /\ pushedBefore = FALSE

\* new is called with some clock frequency on an untouched state machine
NewInit ==
    /\ framed \in BOOLEAN
    /\ pc = "install"
    /\ clock_freq \in ClockFreqs
    /\ int = << >>
    /\ rem = << >>
    /\ frac = << >>
    /\ installed = FALSE
    /\ divisor = << >>
    /\ pindir = "input"
    /\ started = FALSE
    /\ Fresh

newUnchanged ==
    << framed, taken, word, result, calls, txq, stalled, cd, accepted, rejected,
       cdWaited, phases, pushedBefore, clock_freq >>

\* let installed = pio.install(&program.program).unwrap(): the instruction
\* memory has room for the program, or unwrap panics
Install ==
    /\ pc = "install"
    /\ \E room \in BOOLEAN :
          IF room THEN installed' = TRUE /\ pc' = "divisor"
          ELSE pc' = "install_failed" /\ UNCHANGED installed
    /\ UNCHANGED << int, rem, frac, divisor, pindir, started >>
    /\ UNCHANGED newUnchanged
    /\ UNCHANGED smVars

\* lines 65-67. An overflowing u32 operation panics or wraps, as the build
\* has it.
ComputeDivisor ==
    /\ pc = "divisor"
    /\ LET quot == DivU32(clock_freq, BitFreq)
           prod == MulWide(quot, U32(BitFreq))
           diff == SubWrap(clock_freq, Low32(prod))
           scaled == MulWide(diff, U32(FracScale))
           wraps == \/ Overflows(prod)
                    \/ Less(clock_freq, Low32(prod))
                    \/ Overflows(scaled)
       IN  \E panics \in (IF wraps THEN BOOLEAN ELSE {FALSE}) :
              IF panics
                THEN pc' = "overflow" /\ UNCHANGED << int, rem, frac >>
                ELSE /\ int' = quot
                     /\ rem' = diff
                     /\ frac' = DivU32(Low32(scaled), BitFreq)
                     /\ pc' = "assert"
    /\ UNCHANGED << installed, divisor, pindir, started >>
    /\ UNCHANGED newUnchanged
    /\ UNCHANGED smVars

InRangeClamped(i, f) == TRUE

\* (1..=65536).contains(&int) && (int != 65536 || frac == 0)
InRange(i, f) ==
    /\ ~Less(i, U32(1))
    /\ ~Less(U32(DivisorMax), i)
    /\ (i # U32(DivisorMax) \/ f = U32(0))

\* assert!(...), lines 68-72
AssertRange ==
    /\ pc = "assert"
    /\ pc' = IF InRange(int, frac) THEN "build" ELSE "assert_failed"
    /\ UNCHANGED << int, rem, frac, installed, divisor, pindir, started >>
    /\ UNCHANGED newUnchanged
    /\ UNCHANGED smVars

\* lines 73-87: 65536 becomes 0, both parts are narrowed, and the state
\* machine is built with them
Build ==
    /\ pc = "build"
    /\ LET wrapped == IF int = U32(DivisorMax) THEN U32(0) ELSE int
       IN  /\ int' = wrapped
           /\ divisor' = << Narrow(wrapped, 2), Narrow(frac, 1) >>
    /\ pc' = "pindirs"
    /\ UNCHANGED << rem, frac, installed, pindir, started >>
    /\ UNCHANGED newUnchanged
    /\ UNCHANGED smVars

\* sm.set_pindirs([(pin.id().num, PinDir::Output)])
SetPindirs ==
    /\ pc = "pindirs"
    /\ pindir' = "output"
    /\ pc' = "start"
    /\ UNCHANGED << int, rem, frac, installed, divisor, started >>
    /\ UNCHANGED newUnchanged
    /\ UNCHANGED smVars

\* sm.start(), and new returns the driver: its locals are gone
Start ==
    /\ pc = "start"
    /\ started' = TRUE
    /\ int' = << >>
    /\ rem' = << >>
    /\ frac' = << >>
    /\ pc' = "idle"
    /\ UNCHANGED << installed, divisor, pindir >>
    /\ UNCHANGED newUnchanged
    /\ UNCHANGED smVars

NewNext ==
    \/ Install
    \/ ComputeDivisor
    \/ AssertRange
    \/ Build
    \/ SetPindirs
    \/ Start

NewSpec == NewInit /\ [][NewNext]_vars

\* the peripheral after new has returned, for a system clock of 125 MHz
Constructed ==
    /\ clock_freq = U32(125000000)
    /\ int = << >>
    /\ rem = << >>
    /\ frac = << >>
    /\ installed = TRUE
    /\ divisor = << 15, 160 >>
    /\ pindir = "output"
    /\ started = TRUE

(***************************************************************************)
(* Initial state: Ws2812Direct::new has returned, the state machine runs.  *)
(***************************************************************************)
Init ==
    /\ framed \in BOOLEAN
    /\ pc = "idle"
    /\ taken = << >>
    /\ word = NoWord
    /\ result = "none"
    /\ calls = 0
    /\ txq = << >>
    /\ stalled = FALSE
    /\ cd = 0
    /\ smpc = 0
    /\ delay = 0
    /\ osr = ZeroWord
    /\ osrCount = PullThreshold
    /\ x = 0
    /\ line = 0
    /\ accepted = << >>
    /\ rejected = FALSE
    /\ osrTag = NoWord
    /\ lowTime = 0
    /\ cdWaited = 0
    /\ phases = << >>
    /\ pushedBefore = FALSE
    /\ Constructed

(***************************************************************************)
(* CPU: Ws2812::write, lines 164-176                                       *)
(***************************************************************************)
\* a caller invokes write on the driver it owns
Call ==
    /\ pc = "idle"
    /\ calls < MaxCalls
    /\ calls' = calls + 1
    /\ pc' = IF framed THEN "clear" ELSE "next"
    /\ taken' = << >>
    /\ accepted' = << >>
    /\ rejected' = FALSE
    /\ result' = "none"
    /\ phases' = << >>
    /\ pushedBefore' = (pushedBefore \/ accepted # << >>)
    /\ cdWaited' = 0
    /\ UNCHANGED << framed, word, txq, stalled, cd >>
    /\ UNCHANGED smVars
    /\ UNCHANGED newVars

ClearStalledForgotten ==
    /\ pc = "clear"
    /\ pc' = "drain_empty"
    /\ phases' = Append(phases, "clear")
    /\ UNCHANGED << framed, taken, word, result, calls, txq, stalled, cd,
                    accepted, rejected, cdWaited, pushedBefore >>
    /\ UNCHANGED smVars
    /\ UNCHANGED newVars

\* self.driver.tx.clear_stalled_flag();
ClearStalled ==
    /\ pc = "clear"
    /\ stalled' = FALSE
    /\ pc' = "drain_empty"
    /\ phases' = Append(phases, "clear")
    /\ UNCHANGED << framed, taken, word, result, calls, txq, cd, accepted,
                    rejected, cdWaited, pushedBefore >>
    /\ UNCHANGED smVars
    /\ UNCHANGED newVars

DrainExitsOnNonEmpty(q) == q # << >>

\* first operand of the loop condition: !self.driver.tx.is_empty() is false
DrainExitsOnEmpty(q) == q = << >>

\* second operand of the loop condition: !self.driver.tx.has_stalled() is false
DrainExitsOnStall(flag) == flag

\* while !self.driver.tx.is_empty() && ... : read of the FIFO status
DrainPollEmpty ==
    /\ pc = "drain_empty"
    /\ IF DrainExitsOnEmpty(txq)
         THEN /\ pc' = "cd_start"
              /\ phases' = Append(phases, "empty")
         ELSE /\ pc' = "drain_stalled"
              /\ UNCHANGED phases
    /\ UNCHANGED << framed, taken, word, result, calls, txq, stalled, cd,
                    accepted, rejected, cdWaited, pushedBefore >>
    /\ UNCHANGED smVars
    /\ UNCHANGED newVars

\* ... && !self.driver.tx.has_stalled() {} : read of the stall flag
DrainPollStalled ==
    /\ pc = "drain_stalled"
    /\ IF DrainExitsOnStall(stalled)
         THEN /\ pc' = "cd_start"
              /\ phases' = Append(phases, "stalled")
         ELSE \* the empty loop body: the wait goes on
              /\ pc' = "drain_empty"
              /\ phases' = IF phases[Len(phases)] = "busy" THEN phases
                            ELSE Append(phases, "busy")
    /\ UNCHANGED << framed, taken, word, result, calls, txq, stalled, cd,
                    accepted, rejected, cdWaited, pushedBefore >>
    /\ UNCHANGED smVars
    /\ UNCHANGED newVars

CountdownShort == (ResetMicros - 10) * CyclesPerMicro

\* 70_u32.micros() in state-machine cycles
CountdownPeriod == ResetMicros * CyclesPerMicro

CdStartThenTransmit ==
    /\ pc = "cd_start"
    /\ cd' = CountdownPeriod
    /\ pc' = "next"
    /\ phases' = Append(phases, "started")
    /\ UNCHANGED << framed, taken, word, result, calls, txq, stalled, accepted,
                    rejected, cdWaited, pushedBefore >>
    /\ UNCHANGED smVars
    /\ UNCHANGED newVars

\* self.cd.start(70_u32.micros());
CdStart ==
    /\ pc = "cd_start"
    /\ cd' = CountdownPeriod
    /\ pc' = "cd_wait"
    /\ phases' = Append(phases, "started")
    /\ UNCHANGED << framed, taken, word, result, calls, txq, stalled, accepted,
                    rejected, cdWaited, pushedBefore >>
    /\ UNCHANGED smVars
    /\ UNCHANGED newVars

CdElapsedAlways(left) == TRUE

\* self.cd.wait() returns Ok once the period has elapsed, WouldBlock before
CdElapsed(left) == left = 0

\* let _ = nb::block!(self.cd.wait());  then the delegated write is entered
CdWait ==
    /\ pc = "cd_wait"
    /\ CdElapsed(cd)
    /\ pc' = "next"
    /\ phases' = Append(phases, "elapsed")
    /\ UNCHANGED << framed, taken, word, result, calls, txq, stalled, cd,
                    accepted, rejected, cdWaited, pushedBefore >>
    /\ UNCHANGED smVars
    /\ UNCHANGED newVars

(***************************************************************************)
(* CPU: Ws2812Direct::write, lines 106-121                                 *)
(***************************************************************************)
WriteResultReportsStall == IF stalled THEN "Err" ELSE "Ok"

\* Ok(()) of line 120, the only value write returns
WriteResult == "Ok"

\* for item in iterator: the iterator yields the next color, and the loop
\* body packs it (lines 112-114)
IterYield ==
    /\ pc = "next"
    /\ Len(taken) < MaxLen
    /\ \E color \in NextColors(taken) :
          /\ taken' = Append(taken, color)
          /\ word' = [w |-> Pack(color), call |-> calls,
                      first |-> (taken = << >>), follows |-> pushedBefore]
    /\ pc' = "push"
    /\ UNCHANGED << framed, result, calls, txq, stalled, cd, accepted, rejected,
                    cdWaited, phases, pushedBefore >>
    /\ UNCHANGED smVars
    /\ UNCHANGED newVars

IterEndAfterDrain ==
    /\ pc = "next"
    /\ txq = << >>
    /\ pc' = "idle"
    /\ result' = WriteResult
    /\ UNCHANGED << framed, taken, word, calls, txq, stalled, cd, accepted, rejected,
                    cdWaited, phases, pushedBefore >>
    /\ UNCHANGED smVars
    /\ UNCHANGED newVars

\* the iterator ends: Ok(())
IterEnd ==
    /\ pc = "next"
    /\ pc' = "idle"
    /\ result' = WriteResult
    /\ UNCHANGED << framed, taken, word, calls, txq, stalled, cd, accepted, rejected,
                    cdWaited, phases, pushedBefore >>
    /\ UNCHANGED smVars
    /\ UNCHANGED newVars

IterNext == IterEnd \/ IterYield

\* Tx::write accepts the word unless the FIFO is full
FifoAccepts(q) == Len(q) < FifoDepth

PushDropsWhenFull(q) == TRUE

\* while !self.tx.write(word) { nop }: the loop is left once the write succeeded
PushLeavesLoop(q) == FifoAccepts(q)

\* one self.tx.write(word) of the retry loop
Push ==
    /\ pc = "push"
    /\ IF FifoAccepts(txq)
         THEN /\ txq' = Append(txq, word)
              /\ accepted' = Append(accepted, word.w)
              /\ UNCHANGED rejected
         ELSE /\ rejected' = TRUE
              /\ UNCHANGED << txq, accepted >>
    /\ IF PushLeavesLoop(txq)
         THEN /\ pc' = "next"
              /\ word' = NoWord
         ELSE UNCHANGED << pc, word >>
    /\ UNCHANGED << framed, taken, result, calls, stalled, cd, cdWaited, phases,
                    pushedBefore >>
    /\ UNCHANGED smVars
    /\ UNCHANGED newVars

(***************************************************************************)
(* PIO state machine: the program of lines 46-59 under the configuration   *)
(* of lines 80-89, one clock cycle per Tick                                *)
(***************************************************************************)
OutBitRight(reg) == reg[WordBits]

\* out x, 1 with ShiftDirection::Left: the most significant bit leaves first
OutBit(reg) == reg[1]

SideOfOutHigh(addr) == IF addr = 3 THEN 0 ELSE 1

\* side-set value of the instruction at each offset
SideOf(addr) == IF addr = 0 \/ addr = 3 THEN 0 ELSE 1

DelayOfOneMore(addr) == IF addr = 0 THEN T3 ELSE IF addr = 1 THEN T1 - 1 ELSE T2 - 1

\* delay of the instruction at each offset: [T3 - 1], [T1 - 1], [T2 - 1], [T2 - 1]
DelayOf(addr) == IF addr = 0 THEN T3 - 1 ELSE IF addr = 1 THEN T1 - 1 ELSE T2 - 1

\* the OSR has reached the pull threshold: it is empty for autopull
OsrEmpty(count) == count >= PullThreshold

AutoPullOff == FALSE

\* .autopull(true)
AutoPull == TRUE

\* The idle time of the line: the cycles it has been low with every bit of
\* the OSR shifted out, counted up to LatchCycles. The line going high, or a
\* word entering the OSR, ends the measurement.
LowAfter(level, count) ==
    IF level = 0 /\ OsrEmpty(count) THEN Min(lowTime + 1, LatchCycles) ELSE 0

\* a delay cycle of the current instruction
TickDelay ==
    /\ delay > 0
    /\ delay' = delay - 1
    /\ lowTime' = LowAfter(line, osrCount)
    /\ UNCHANGED << smpc, osr, osrCount, x, line, osrTag, txq, stalled >>

\* out x, 1  side 0 [T3 - 1] with autopull: stalls while the OSR is empty
TickOut ==
    /\ delay = 0
    /\ smpc = 0
    /\ line' = SideOf(0)
    /\ IF AutoPull /\ OsrEmpty(osrCount)
         THEN \* stall; the OSR is refilled when the FIFO holds a word
              /\ IF txq # << >>
                   THEN /\ osr' = Head(txq).w
                        /\ osrTag' = Head(txq)
                        /\ osrCount' = 0
                        /\ txq' = Tail(txq)
                        /\ UNCHANGED stalled
                   ELSE /\ stalled' = TRUE
                        /\ UNCHANGED << osr, osrTag, osrCount, txq >>
              /\ UNCHANGED << smpc, delay, x >>
         ELSE /\ x' = OutBit(osr)
              /\ smpc' = 1
              /\ delay' = DelayOf(0)
              /\ IF AutoPull /\ OsrEmpty(osrCount + 1) /\ txq # << >>
                   THEN \* the OUT that empties the OSR refills it at once
                        /\ osr' = Head(txq).w
                        /\ osrTag' = Head(txq)
                        /\ osrCount' = 0
                        /\ txq' = Tail(txq)
                   ELSE /\ osr' = Shl(osr, 1)
                        /\ osrCount' = Min(osrCount + 1, WordBits)
                        /\ UNCHANGED << osrTag, txq >>
              /\ UNCHANGED stalled
    /\ lowTime' = LowAfter(SideOf(0), osrCount')

\* jmp !x do_zero  side 1 [T1 - 1]
TickJmpNotX ==
    /\ delay = 0
    /\ smpc = 1
    /\ line' = SideOf(1)
    /\ lowTime' = LowAfter(SideOf(1), osrCount)
    /\ smpc' = IF x = 0 THEN 3 ELSE 2
    /\ delay' = DelayOf(1)
    /\ UNCHANGED << osr, osrCount, x, osrTag, txq, stalled >>

\* jmp bitloop  side 1 [T2 - 1]
TickJmpLoop ==
    /\ delay = 0
    /\ smpc = 2
    /\ line' = SideOf(2)
    /\ lowTime' = LowAfter(SideOf(2), osrCount)
    /\ smpc' = 0
    /\ delay' = DelayOf(2)
    /\ UNCHANGED << osr, osrCount, x, osrTag, txq, stalled >>

\* do_zero: nop  side 0 [T2 - 1], then .wrap
TickNop ==
    /\ delay = 0
    /\ smpc = 3
    /\ line' = SideOf(3)
    /\ lowTime' = LowAfter(SideOf(3), osrCount)
    /\ smpc' = 0
    /\ delay' = DelayOf(3)
    /\ UNCHANGED << osr, osrCount, x, osrTag, txq, stalled >>

\* one state-machine clock cycle; the countdown timer runs on the same time
Tick ==
    /\ started
    /\ \/ TickDelay
       \/ TickOut
       \/ TickJmpNotX
       \/ TickJmpLoop
       \/ TickNop
    /\ cd' = IF cd > 0 THEN cd - 1 ELSE 0
    /\ cdWaited' = IF pc = "cd_wait" THEN Min(cdWaited + 1, ResetCycles)
                   ELSE cdWaited
    /\ UNCHANGED << framed, pc, taken, word, result, calls, accepted, rejected,
                    phases, pushedBefore >>
    /\ UNCHANGED newVars

Next ==
    \/ Call
    \/ ClearStalled
    \/ DrainPollEmpty
    \/ DrainPollStalled
    \/ CdStart
    \/ CdWait
    \/ IterNext
    \/ Push
    \/ Tick

Spec == Init /\ [][Next]_vars

\* the shape of the states of Spec
TypeOK ==
    /\ framed \in BOOLEAN
    /\ pc \in {"idle", "clear", "drain_empty", "drain_stalled", "cd_start",
               "cd_wait", "next", "push"}
    /\ Len(taken) <= MaxLen
    /\ Len(txq) <= FifoDepth
    /\ cd \in 0 .. ResetCycles
    /\ smpc \in 0 .. 3
    /\ Len(osr) = WordBits
    /\ osrCount \in 0 .. WordBits
    /\ line \in {0, 1}

(***************************************************************************)
(* Word packing on its own: one color is packed by the loop body           *)
(***************************************************************************)
\* channel values around every bit position of a u8
Channels ==
    {0, 255} \cup { Pow2(k) : k \in 0 .. 7 } \cup { 255 - Pow2(k) : k \in 0 .. 7 }

PackInit ==
    /\ framed = FALSE
    /\ pc = "pack"
    /\ \E r \in Channels, g \in Channels, b \in Channels : taken = << << r, g, b >> >>
    /\ word = NoWord
    /\ result = "none"
    /\ calls = 1
    /\ txq = << >>
    /\ stalled = FALSE
    /\ cd = 0
    /\ smpc = 0
    /\ delay = 0
    /\ osr = ZeroWord
    /\ osrCount = PullThreshold
    /\ x = 0
    /\ line = 0
    /\ accepted = << >>
    /\ rejected = FALSE
    /\ osrTag = NoWord
    /\ lowTime = 0
    /\ cdWaited = 0
    /\ phases = << >>
    /\ pushedBefore = FALSE
    /\ Constructed

\* lines 112-114 applied to the color taken
PackColor ==
    /\ pc = "pack"
    /\ word' = [w |-> Pack(taken[1]), call |-> calls, first |-> TRUE,
                follows |-> FALSE]
    /\ pc' = "push"
    /\ UNCHANGED << framed, taken, result, calls, txq, stalled, cd, accepted,
                    rejected, cdWaited, phases, pushedBefore >>
    /\ UNCHANGED smVars
    /\ UNCHANGED newVars

PackNext == PackColor \/ Push

PackSpec == PackInit /\ [][PackNext]_vars

(***************************************************************************)
(* Properties                                                              *)
(***************************************************************************)
Returned == pc = "idle" /\ result = "Ok"
InTransmit == pc \in {"next", "push"}

\* the word each color of the model packs to
PackedColor == [color \in Colors |-> Pack(color)]

\* C1: while a write call runs and when it has returned, the words the FIFO
\* accepted in this call are the packed colors taken from the iterator, in the
\* order taken, none dropped, repeated or swapped; only the color being pushed
\* is still outstanding, and at the return there are exactly N accepted words.
C1_ExactlyNWordsInOrder ==
    (pc \in {"idle", "next", "push"}) =>
        /\ Len(accepted) = Len(taken) - (IF pc = "push" THEN 1 ELSE 0)
        /\ \A i \in 1 .. Len(accepted) : accepted[i] = PackedColor[taken[i]]
        /\ pc = "push" => word.w = PackedColor[taken[Len(taken)]]

\* a call of more colors than the FIFO holds has returned after a refused push
C1_Witness ==
    /\ Returned
    /\ Len(taken) > FifoDepth
    /\ rejected
    /\ Len(accepted) = Len(taken)

\* the color a word unpacks to by the byte lanes (g, r, b, 0)
Unpack(w) == << Lane(w, 2), Lane(w, 3), Lane(w, 1) >>

\* C2: the word pushed for a color (r, g, b) has the byte lanes (g, r, b, 0)
\* from the most significant byte down, and unpacking it by these lanes gives
\* (r, g, b) back.
C2_PackLanes ==
    \A i \in 1 .. Len(txq) :
        LET color == taken[Len(taken) - Len(txq) + i]
            w == txq[i].w
        IN  /\ Lane(w, 3) = color[2]
            /\ Lane(w, 2) = color[1]
            /\ Lane(w, 1) = color[3]
            /\ Lane(w, 0) = 0
            /\ Unpack(w) = color

\* a word with three different non-zero channels is in the FIFO
C2_Witness ==
    /\ Len(txq) = 1
    /\ taken = << << 254, 1, 128 >> >>
    /\ Lane(txq[1].w, 3) = 1

\* the state machine is about to pull the first word of a call that follows
\* an earlier frame: the line rises 1 + T3 cycles from now
FrameStarts ==
    /\ smpc = 0
    /\ delay = 0
    /\ OsrEmpty(osrCount)
    /\ txq # << >>
    /\ Head(txq).first
    /\ Head(txq).follows

\* C3: between two consecutive write calls of the Framed Driver the line stays
\* low for at least the latch time of 50 microseconds: when the first bit of
\* the later frame raises the line, the line has been low LatchCycles cycles.
C3_LatchTimeKept ==
    (framed /\ FrameStarts) => lowTime + 1 + T3 >= LatchCycles

\* the drain wait is left by this step
DrainWaitEnds == pc \in {"drain_empty", "drain_stalled"} /\ pc' = "cd_start"

\* C4: the drain wait of the Framed Driver ends only in a state where the FIFO
\* is empty and the stall flag is not set.
C4_ExitEmptyNotStalled ==
    [][DrainWaitEnds => (txq = << >> /\ ~stalled)]_vars

\* C4 as amended: the drain wait of the Framed Driver ends only in a state
\* where the FIFO is empty; the stall flag may be set in that state.
C4_ExitEmpty ==
    [][DrainWaitEnds => txq = << >>]_vars

\* the later call has left its drain wait on the stall flag, the FIFO empty
C4_Witness ==
    /\ framed
    /\ calls = 2
    /\ pushedBefore
    /\ pc = "cd_start"
    /\ phases = << "clear", "busy", "stalled" >>
    /\ txq = << >>
    /\ stalled

\* the state machine waits for data with nothing left to shift out
SmIdle ==
    /\ smpc = 0
    /\ delay = 0
    /\ line = 0
    /\ OsrEmpty(osrCount)
    /\ txq = << >>

\* C5: when the countdown of a Framed Driver call is started, the state
\* machine is idle: every bit of every word pushed before has been shifted
\* out and no bit waveform is in progress.
C5_IdleWhenCountdownStarts ==
    (framed /\ pc = "cd_wait" /\ cd = CountdownPeriod) => SmIdle

\* C6: once a Framed Driver call has left its drain wait, every word in the
\* FIFO was pushed by this call: the words of the call before have all left
\* the FIFO, and words of two calls are never in the FIFO together.
C6_NoOverlapInFifo ==
    framed =>
        /\ \A i \in 1 .. Len(txq) : txq[i].call = txq[1].call
        /\ pc \in {"cd_start", "cd_wait", "next", "push"} =>
              \A i \in 1 .. Len(txq) : txq[i].call = calls

\* the second call has pushed its second word after the first call pushed too
C6_Witness ==
    /\ framed
    /\ calls = 2
    /\ pushedBefore
    /\ pc = "next"
    /\ Len(accepted) = 2
    /\ Len(txq) = 2

\* C7: in a Framed Driver call no word is pushed while the countdown runs, and
\* the call has waited at least 70 microseconds in the countdown before the
\* delegated write takes its first color.
C7_CountdownBeforePush ==
    (framed /\ (InTransmit \/ accepted # << >>)) =>
        /\ cd = 0
        /\ cdWaited >= ResetCycles

\* the first word of a Framed Driver call is about to be pushed
C7_Witness ==
    /\ framed
    /\ pc = "push"
    /\ accepted = << >>
    /\ cdWaited = ResetCycles

\* C8: every write call, of either driver, returns Ok and never an error,
\* whatever the FIFO and the stall flag have been through.
C8_AlwaysOk ==
    /\ result \in {"none", "Ok"}
    /\ (pc = "idle" /\ calls > 0) => result = "Ok"

\* a Framed Driver call has returned after a refused push, the stall flag set
C8_Witness ==
    /\ framed
    /\ Returned
    /\ calls = 2
    /\ rejected
    /\ stalled

\* C10: a write call on an empty sequence has no word accepted by the FIFO
\* and returns Ok; on the Framed Driver it has cleared the stall flag, left
\* the drain wait and waited 70 microseconds in the countdown before.
C10_EmptyWrite ==
    (Returned /\ taken = << >>) =>
        /\ accepted = << >>
        /\ framed =>
              /\ SelectSeq(phases, LAMBDA p : p # "busy")
                    \in { << "clear", e, "started", "elapsed" >> :
                            e \in {"empty", "stalled"} }
              /\ cdWaited >= ResetCycles
              /\ cd = 0

\* a Framed Driver call on an empty sequence has returned, the FIFO still
\* holding nothing and the first call's frame sent
C10_Witness ==
    /\ framed
    /\ Returned
    /\ calls = 2
    /\ pushedBefore
    /\ taken = << >>
    /\ txq = << >>

(***************************************************************************)
(* Fairness: the started state machine and the timer run on hardware       *)
(* clocks, and the CPU keeps executing the write call it is in.            *)
(***************************************************************************)
CpuStep ==
    \/ ClearStalled
    \/ DrainPollEmpty
    \/ DrainPollStalled
    \/ CdStart
    \/ CdWait
    \/ IterNext
    \/ Push

FairSpec == Init /\ [][Next]_vars /\ WF_vars(Tick) /\ WF_vars(CpuStep)

\* cycles until the state machine next executes OUT
CyclesToOut ==
    delay + (IF smpc = 1 THEN 1 + DelayOf(1) + 1 + DelayOf(2)
             ELSE IF smpc \in {2, 3} THEN 1 + DelayOf(smpc)
             ELSE 0)

\* cycles until the oldest word of a non-empty FIFO is pulled into the OSR
PopLeft ==
    CyclesToOut + 1
    + (IF OsrEmpty(osrCount) THEN 0
       ELSE (PullThreshold - osrCount - 1) * CYCLES_PER_BIT)

\* cycles until a non-empty FIFO is empty
DrainLeft == PopLeft + (Len(txq) - 1) * PullThreshold * CYCLES_PER_BIT

InDrainWait == pc \in {"drain_empty", "drain_stalled"} /\ txq # << >>
InCountdownWait == pc = "cd_wait" /\ cd > 0
InFullWait == pc = "push" /\ Len(txq) = FifoDepth

\* the call is in one of its three busy-waits and the wait cannot end yet
Waiting == InDrainWait \/ InCountdownWait \/ InFullWait

\* cycles after which the wait the call is in can end
WaitLeft ==
    IF InDrainWait THEN DrainLeft
    ELSE IF InCountdownWait THEN cd
    ELSE IF InFullWait THEN PopLeft
    ELSE 0

\* a bound on the steps the CPU still takes in this call outside of waits
CallRank ==
    LET base == 2 * MaxLen + 2
    IN  CASE pc = "idle" -> 0
          [] pc = "next" -> 2 * (MaxLen - Len(taken)) + 1
          [] pc = "push" -> 2 * (MaxLen - Len(taken)) + 2
          [] pc = "cd_wait" -> base
          [] pc = "cd_start" -> base + 1
          [] pc = "drain_empty" -> base + 2
          [] pc = "drain_stalled" -> base + 3
          [] pc = "clear" -> base + 4

\* C9: every write call that has been started returns, given that the state
\* machine and the timer keep running and the CPU keeps executing (FairSpec).
\* The formula is the argument by decreasing measures:
\*  - while the call is in a busy-wait that cannot end yet, a clock cycle is
\*    possible and every clock cycle brings the end of the wait nearer;
\*  - a step of the CPU in such a wait leaves the distance to its end as it is
\*    or leaves the wait; any other step of the CPU brings the return nearer;
\*  - outside of such a wait the CPU can always take a step;
\*  - the call is left only by the return of Ok with every color taken
\*    accepted by the FIFO: there is no abort and no partial write.
C9_WriteReturns ==
    /\ [](Waiting => ENABLED << Tick >>_vars)
    /\ []((pc # "idle" /\ ~Waiting) => ENABLED << CpuStep >>_vars)
    /\ [][(Tick /\ Waiting) => WaitLeft' < WaitLeft]_vars
    /\ [][CpuStep => \/ CallRank' < CallRank
                     \/ Waiting /\ Waiting' /\ WaitLeft' = WaitLeft]_vars
    /\ [][(pc # "idle" /\ pc' = "idle") =>
              (result' = "Ok" /\ Len(accepted') = Len(taken'))]_vars

\* the second call has returned after all three waits: it found words of the
\* first call in the FIFO, waited for the countdown, and had a push refused
C9_Witness ==
    /\ framed
    /\ Returned
    /\ calls = 2
    /\ pushedBefore
    /\ phases = << "clear", "busy", "empty", "started", "elapsed" >>
    /\ rejected
    /\ Len(taken) > FifoDepth

(***************************************************************************)
(* Construction                                                            *)
(***************************************************************************)
\* the range check has passed and the locals still hold what was computed
DivisorChecked == pc = "build"

\* a * b <= c < (a + 1) * b, exactly: a is floor(c / b); a, b u32, c wide
IsFloorOf(a, b, c) ==
    /\ ~Less(c, MulWide(a, b))
    /\ Less(c, Add(MulWide(a, b), Widen(b)))

\* C11: whenever construction passes the range check, int = floor(F / 8,000,000)
\* and frac = floor((F mod 8,000,000) * 256 / 8,000,000), frac is in 0 .. 255,
\* int + frac/256 is at most F / 8,000,000 and less than 1/256 below it, and
\* F = 125,000,000 gives int = 15 and frac = 160.
C11_DivisorParts ==
    DivisorChecked =>
        LET d == U32(8000000)
            F == Widen(clock_freq)
            remainder == SubWrap(F, MulWide(int, d))
            fixed == Add(ShlWide(Widen(int), 1), Widen(frac))
        IN  /\ IsFloorOf(int, d, F)
            /\ IsFloorOf(frac, d, ShlWide(remainder, 1))
            /\ ~Less(U32(255), frac)
            /\ ~Overflows(fixed)
            /\ IsFloorOf(Low32(fixed), d, ShlWide(F, 1))
            /\ (clock_freq = U32(125000000) => int = U32(15) /\ frac = U32(160))

\* new has computed 15 and 160 for 125 MHz
C11_Witness ==
    /\ DivisorChecked
    /\ clock_freq = U32(125000000)
    /\ int = U32(15)
    /\ frac = U32(160)

\* the divisor is one the hardware has: 1 <= int <= 65536, no fraction at 65536
ValidDivisor(i, f) ==
    /\ i # U32(0)
    /\ ~Less(U32(65536), i)
    /\ (i = U32(65536) => f = U32(0))

\* C12: construction goes on after the range check if and only if the divisor
\* computed is valid, and aborts otherwise; it returns only with the state
\* machine built on exactly the pair computed (65536 as 0) and started.
C12_SucceedsIffInRange ==
    /\ [](pc = "build" => ValidDivisor(int, frac))
    /\ [](pc = "assert_failed" => ~ValidDivisor(int, frac))
    /\ [][pc = "assert" => pc' \in {"build", "assert_failed"}]_vars
    /\ [][pc = "assert_failed" => FALSE]_vars
    /\ [][pc = "build" =>
            (/\ divisor' \in (0 .. 65535) \X (0 .. 255)
             /\ U32(divisor'[1]) = (IF int = U32(65536) THEN U32(0) ELSE int)
             /\ U32(divisor'[2]) = frac)]_vars
    /\ [][(pc \in {"pindirs", "start"}) => UNCHANGED divisor]_vars
    /\ []((pc = "idle" /\ calls = 0) =>
            (started /\ divisor # << >> /\ ~Less(clock_freq, U32(8000000))))

\* new has returned with an integer part that needs more than 8 bits
C12_Witness ==
    /\ pc = "idle"
    /\ started
    /\ divisor # << >>
    /\ divisor[1] > 255

\* C18: when construction has aborted on the range check, the program is not
\* installed, the state machine is not built or started, and the pin
\* direction is not set.
C18_AbortTouchesNothing ==
    pc = "assert_failed" =>
        (~installed /\ divisor = << >> /\ pindir = "input" /\ ~started)

\* lines 65-67 have been executed
DivisorComputed == pc \in {"assert", "build", "assert_failed"}

\* C19: for every clock frequency the divisor computation does not overflow:
\* int * 8,000,000 fits in a u32 and is at most F, rem is F - int * 8,000,000
\* and below 8,000,000, rem * 256 fits in a u32, and frac is its quotient.
C19_NoOverflow ==
    /\ pc # "overflow"
    /\ DivisorComputed =>
         LET d == U32(8000000)
             F == Widen(clock_freq)
         IN  /\ ~Overflows(MulWide(int, d))
             /\ ~Less(F, MulWide(int, d))
             /\ Widen(rem) = SubWrap(F, MulWide(int, d))
             /\ Less(rem, d)
             /\ ~Overflows(MulWide(rem, U32(256)))
             /\ IsFloorOf(frac, d, MulWide(rem, U32(256)))

\* the largest clock frequency, 2^32 - 1 Hz, has gone through the computation
C19_Witness ==
    /\ DivisorComputed
    /\ clock_freq = [i \in 1 .. Limbs |-> Base - 1]
    /\ int = U32(536)

(***************************************************************************)
(* The timing program                                                      *)
(***************************************************************************)
\* the number of cycles since the bit now on the line began, 0 .. 9; in a
\* state machine that waits for data, the last value it had
BitPhase ==
    IF smpc = 1 THEN 2 - delay
    ELSE IF smpc \in {2, 3} THEN 4 - delay
    ELSE 9 - delay

\* the level of the line p cycles into a bit: low for 3 cycles, then high
\* for 2 cycles (0 bit) or 7 cycles (1 bit), low for the rest of the 10
LevelAt(p, bit) == IF p < 3 THEN 0 ELSE IF p < 5 THEN 1 ELSE bit

\* a cycle inside a bit, and the cycle that begins a bit
InsideBit == Tick /\ (smpc # 0 \/ delay > 0)
BitBegins == Tick /\ smpc = 0 /\ delay = 0 /\ smpc' = 1

\* C13: while the shift register has data every bit takes exactly 10 cycles,
\* whatever its value: the line is low for its first 3 cycles, high for the
\* next 2, and for the last 5 cycles high for a 1 bit and low for a 0 bit.
C13_BitTiming ==
    /\ [][BitBegins => (BitPhase' = 0 /\ line' = 0)]_vars
    /\ [][InsideBit => (/\ BitPhase' = BitPhase + 1
                        /\ BitPhase' <= 9
                        /\ x' = x
                        /\ line' = LevelAt(BitPhase', x))]_vars
    /\ [][(Tick /\ smpc = 0 /\ delay = 0 /\ osrCount < 24) => BitBegins]_vars

\* the last cycle of a 1 bit in the middle of a word: the line is still high
C13_Witness ==
    /\ smpc = 0
    /\ delay = 0
    /\ x = 1
    /\ line = 1
    /\ osrCount \in 1 .. 23

\* the state machine executes OUT and shifts a bit; it takes a word
BitShifted == Tick /\ smpc = 0 /\ smpc' = 1
WordPulled == txq' # txq /\ Len(txq') < Len(txq)

\* C14: the state machine shifts out bits 1 .. 24 of each word, counted from
\* the most significant, in this order and no others; it takes a word from
\* the queue only when the 24 bits of the word before are out, oldest first.
C14_Msb24 ==
    /\ [](osrCount <= 24)
    /\ [][BitShifted => (/\ osrCount < 24
                         /\ x' = osrTag.w[osrCount + 1]
                         /\ osrCount' = (osrCount + 1) % 24
                               \/ (osrCount' = 24 /\ txq = << >>))]_vars
    /\ [][WordPulled => (/\ txq' = Tail(txq)
                         /\ osrTag' = Head(txq)
                         /\ osrCount' = 0
                         /\ osrCount \in {23, 24}
                         /\ (osrCount = 23) = BitShifted)]_vars
    /\ [][(osrTag' # osrTag) => WordPulled]_vars
    /\ [][(osrCount' # osrCount /\ ~WordPulled) =>
              (BitShifted /\ osrCount' = osrCount + 1)]_vars

\* all 24 bits of a word of the second call are out and the queue is empty
C14_Witness ==
    /\ osrCount = 24
    /\ osrTag.call = 2
    /\ txq = << >>
    /\ smpc = 0
    /\ delay = 0

\* C15: the write of the Protocol Driver goes back to its iterator at once
\* when a push is accepted, and when the iterator ends it can return whatever
\* the queue and the state machine hold; the return reads and changes
\* nothing of them.
C15_ReturnsAfterLastPush ==
    /\ [](pc = "next" => ENABLED << IterEnd >>_vars)
    /\ [][(pc = "push" /\ accepted' # accepted) => pc' = "next"]_vars
    /\ [][(pc # "idle" /\ pc' = "idle") =>
              (pc = "next" /\ UNCHANGED << txq, stalled, accepted, smVars >>)]_vars

\* the Protocol Driver has returned from a write of MaxLen colors while none
\* of the last FifoDepth words has left the queue
C15_Witness ==
    /\ ~framed
    /\ Returned
    /\ Len(accepted) = MaxLen
    /\ Len(txq) = FifoDepth

\* the steps of the Framed Driver a call has gone through, a repeated poll
\* of the drain wait left out
Phases == SelectSeq(phases, LAMBDA p : p # "busy")
DrainEnd == {"empty", "stalled"}

\* C16: a call of the Framed Driver clears the stall flag once and before it
\* polls, starts the countdown once and after the drain wait has ended, and
\* takes colors and pushes words only after the countdown has elapsed; the
\* Protocol Driver has none of these steps.
C16_PhaseOrder ==
    /\ [](~framed => (phases = << >> /\ pc \in {"idle", "next", "push"}))
    /\ []((framed /\ pc = "clear") => phases = << >>)
    /\ []((framed /\ pc \in {"drain_empty", "drain_stalled"}) => Phases = << "clear" >>)
    /\ []((framed /\ pc = "cd_start") =>
            \E e \in DrainEnd : Phases = << "clear", e >>)
    /\ []((framed /\ pc = "cd_wait") =>
            \E e \in DrainEnd : Phases = << "clear", e, "started" >>)
    /\ []((framed /\ (pc \in {"next", "push"} \/ Returned)) =>
            /\ \E e \in DrainEnd : Phases = << "clear", e, "started", "elapsed" >>
            /\ cdWaited >= 560)
    /\ [][(pc' # pc) =>
            << pc, pc' >> \in {<< "idle", "clear" >>, << "clear", "drain_empty" >>,
                               << "drain_empty", "drain_stalled" >>,
                               << "drain_stalled", "drain_empty" >>,
                               << "drain_empty", "cd_start" >>,
                               << "drain_stalled", "cd_start" >>,
                               << "cd_start", "cd_wait" >>, << "cd_wait", "next" >>,
                               << "idle", "next" >>, << "next", "push" >>,
                               << "push", "next" >>, << "next", "idle" >>}]_vars

\* the second call of the Framed Driver pushes a word, after a drain wait
\* that took several polls
C16_Witness ==
    /\ framed
    /\ calls = 2
    /\ pc = "push"
    /\ phases = << "clear", "busy", "empty", "started", "elapsed" >>

\* a cycle in which the state machine waits for data
SmWaits == Tick /\ smpc = 0 /\ delay = 0 /\ osrCount >= 24 /\ txq = << >>

\* C17: in every cycle the state machine waits for data the line is low, as
\* it is before the first write; the line is high only inside a bit.
C17_LowWhenStalled ==
    /\ [][SmWaits => line' = 0]_vars
    /\ [](calls = 0 => line = 0)
    /\ [](line = 1 => (osrTag # NoWord /\ BitPhase >= 3))

\* an underrun in the middle of a frame: the state machine has been waiting
\* for the next word of the call that is about to push it
C17_Witness ==
    /\ pc = "push"
    /\ accepted # << >>
    /\ osrTag.call = calls
    /\ txq = << >>
    /\ osrCount = 24
    /\ lowTime > 2 * T2
    /\ line = 0
====
